---- MODULE Spec2Model ----
(***************************************************************************)
(* VecView: lazy, coordinate-by-coordinate vector expressions over         *)
(* caller-owned storage (VecView.h).                                       *)
(*                                                                         *)
(* One behaviour is one C++ statement:                                     *)
(*     AVec(ptr, dim[, stride]) = e;       (kind "assign")                 *)
(*     T p = e;                            (kind "scalar", e a NumberView) *)
(* Composition builds the views and nodes of e (every Dot inside e runs    *)
(* eagerly, while e is being built); the assignment loop then runs one     *)
(* coordinate per step.                                                    *)
(***************************************************************************)
EXTENDS Integers, Sequences, FiniteSets

VARIABLES
    mem,      \* the caller's memory: cell -> value
    mem0,     \* the memory when the statement started (history)
    stmt,     \* the statement as written (Dot nodes unevaluated)
    expr,     \* the composed right-hand side: the object operator= / operator T receives
    pc,       \* "idle", "rejected" (does not compile), "loop", "done"
    i,        \* loop counter of AssignableVectorView::operator=
    res,      \* the scalar a "scalar" statement stored
    rfirst,   \* the build evaluates right operands first (unspecified in C++)
    log       \* history: every Evaluate call on a leaf and every write, in order

vars == <<mem, mem0, stmt, expr, pc, i, res, rfirst, log>>

-----------------------------------------------------------------------------
(* Bounds of the model *)

MemSize == 4        \* cells of caller memory
MaxDim == 2         \* largest dim given to a bounded view

Cells == 0 .. (MemSize - 1)
Dims == {0 - 1} \cup (0 .. MaxDim)
Strides == {2}
Ptrs == {0, MemSize - MaxDim}     \* two caller arrays: mem and mem + (MemSize - MaxDim)
Scalars == {3}

-----------------------------------------------------------------------------
(* Storages: a storage is the address computation of its operator[] *)

ArrayPtr(p) == [shape |-> "ArrayPtr", ptr |-> p]
StridedArrayPtr(p, s) == [shape |-> "StridedArrayPtr", ptr |-> p, stride |-> s]

ArrayPtr_at(st, idx) == st.ptr + idx
\* Faulty variant of StridedArrayPtr::operator[]: the stride is dropped.
StridedArrayPtr_at_unit(st, idx) == st.ptr + idx

StridedArrayPtr_at(st, idx) == st.ptr + idx * st.stride

Storage_at(st, idx) ==
    IF st.shape = "ArrayPtr" THEN ArrayPtr_at(st, idx) ELSE StridedArrayPtr_at(st, idx)

\* A composed statement only touches cells of mem (InBounds below); the ELSE
\* branch is never taken by it.
Load(m, c) == IF c \in DOMAIN m THEN m[c] ELSE 0

-----------------------------------------------------------------------------
(* Views and expression nodes *)

Num(c) == [k |-> "NumberView", num |-> c]
Vec(st, d) == [k |-> "VectorView", storage |-> st, dim |-> d]
NoDimVec(st) == [k |-> "NoDimVectorView", storage |-> st]
AVec(st, d) == [k |-> "AssignableVectorView", storage |-> st, dim |-> d]
Neg(a) == [k |-> "Neg", v |-> a]
Add(a, b) == [k |-> "Add", v1 |-> a, v2 |-> b]
Sub(a, b) == [k |-> "Sub", v1 |-> a, v2 |-> b]
Dot(a, b) == [k |-> "Dot", v1 |-> a, v2 |-> b]

IsLeaf(e) ==
    e.k \in {"NumberView", "VectorView", "NoDimVectorView", "AssignableVectorView"}
IsStored(e) == e.k \in {"VectorView", "NoDimVectorView", "AssignableVectorView"}

\* The C++ type of e is NumberView<T>: Num(..), Dot(..) and, by the overload
\* operator+(NumberView, NumberView), the sum of two NumberViews.
RECURSIVE IsNumberView(_)
IsNumberView(e) ==
    \/ e.k \in {"NumberView", "Dot"}
    \/ e.k = "Add" /\ IsNumberView(e.v1) /\ IsNumberView(e.v2)

\* HasMemberDim<T>::value: T has a callable "int Dim() const".
RECURSIVE HasMemberDim(_)
HasMemberDim(e) ==
    CASE e.k \in {"VectorView", "AssignableVectorView"} -> TRUE
      [] e.k \in {"NoDimVectorView", "NumberView"} -> FALSE
      [] IsNumberView(e) -> FALSE
      [] e.k = "Neg" -> HasMemberDim(e.v)
      [] OTHER -> HasMemberDim(e.v1) \/ HasMemberDim(e.v2)

\* Dimention<Arg1, Arg2>::Dim compiles: when Arg1 has no Dim, a2.Dim() must exist.
Dimention_Compiles(a1, a2) == HasMemberDim(a1) \/ HasMemberDim(a2)

\* Faulty variant of composition: every two-operand node asks for a length.
RECURSIVE Compiles_strict(_)
Compiles_strict(e) ==
    CASE IsLeaf(e) -> TRUE
      [] e.k = "Neg" -> Compiles_strict(e.v)
      [] IsNumberView(e) /\ e.k = "Add" -> Compiles_strict(e.v1) /\ Compiles_strict(e.v2)
      [] OTHER ->
            Compiles_strict(e.v1) /\ Compiles_strict(e.v2) /\ Dimention_Compiles(e.v1, e.v2)

\* The statement's expression compiles: every Dot in it instantiates
\* DotProd::run, hence Dimention::Dim; BinOp and UnaOp always construct.
RECURSIVE Compiles(_)
Compiles(e) ==
    CASE IsLeaf(e) -> TRUE
      [] e.k = "Neg" -> Compiles(e.v)
      [] e.k = "Dot" -> Compiles(e.v1) /\ Compiles(e.v2) /\ Dimention_Compiles(e.v1, e.v2)
      [] OTHER -> Compiles(e.v1) /\ Compiles(e.v2)

-----------------------------------------------------------------------------
(* Evaluate(i) of every view and node, on memory m.  Nodes hold Dot-free     *)
(* operands: a Dot has already become a NumberView when a node is built.     *)

\* Faulty variant of NumberView::Evaluate: a scalar is a vector of one coordinate.
NumberView_Evaluate_first(e, idx) == IF idx = 0 THEN e.num ELSE 0

NumberView_Evaluate(e, idx) == e.num
VectorView_Evaluate(e, idx, m) == Load(m, Storage_at(e.storage, idx))
NoDimVectorView_Evaluate(e, idx, m) == Load(m, Storage_at(e.storage, idx))
AssignableVectorView_Evaluate(e, idx, m) == Load(m, Storage_at(e.storage, idx))

RECURSIVE Evaluate(_, _, _), VectorAdd_run(_, _, _, _), VectorSub_run(_, _, _, _),
          VectorNeg_run(_, _, _), VectorAdd_run_sub(_, _, _, _)

\* Faulty variant of VectorAdd::run: "-" for "+".
VectorAdd_run_sub(idx, v1, v2, m) == Evaluate(v1, idx, m) - Evaluate(v2, idx, m)

VectorAdd_run(idx, v1, v2, m) == Evaluate(v1, idx, m) + Evaluate(v2, idx, m)
VectorSub_run(idx, v1, v2, m) == Evaluate(v1, idx, m) - Evaluate(v2, idx, m)
VectorNeg_run(idx, v1, m) == 0 - Evaluate(v1, idx, m)

Evaluate(e, idx, m) ==
    CASE e.k = "NumberView" -> NumberView_Evaluate(e, idx)
      [] e.k = "VectorView" -> VectorView_Evaluate(e, idx, m)
      [] e.k = "NoDimVectorView" -> NoDimVectorView_Evaluate(e, idx, m)
      [] e.k = "AssignableVectorView" -> AssignableVectorView_Evaluate(e, idx, m)
      [] e.k = "Neg" -> VectorNeg_run(idx, e.v, m)
      [] e.k = "Add" -> VectorAdd_run(idx, e.v1, e.v2, m)
      [] e.k = "Sub" -> VectorSub_run(idx, e.v1, e.v2, m)

-----------------------------------------------------------------------------
(* Dim() of the nodes that have one, and Dimention<Arg1, Arg2>::Dim *)

RECURSIVE Dim(_), Dimention_Dim(_, _), Dimention_Dim_second(_, _)

\* Faulty variant of Dimention::Dim: the second operand wins.
Dimention_Dim_second(a1, a2) == IF HasMemberDim(a2) THEN Dim(a2) ELSE Dim(a1)

Dimention_Dim(a1, a2) == IF HasMemberDim(a1) THEN Dim(a1) ELSE Dim(a2)

Dim(e) ==
    CASE e.k \in {"VectorView", "AssignableVectorView"} -> e.dim
      [] e.k = "Neg" -> Dim(e.v)
      [] e.k \in {"Add", "Sub"} -> Dimention_Dim(e.v1, e.v2)

-----------------------------------------------------------------------------
(* DotProd::run: the eager loop of Dot *)

\* Faulty variant of the loop condition of DotProd::run: "i <= Dim" for "i < Dim".
DotProd_bound_inclusive(d1, d2) == Dimention_Dim(d1, d2) + 1

\* The bound of the loop of DotProd::run
DotProd_bound(d1, d2) == Dimention_Dim(d1, d2)

\* Faulty variant of the loop of DotProd::run: "res =" for "res +=".
RECURSIVE DotProd_loop_assign(_, _, _, _, _)
DotProd_loop_assign(d1, d2, m, idx, acc) ==
    IF idx < Dimention_Dim(d1, d2)
    THEN DotProd_loop_assign(d1, d2, m, idx + 1, Evaluate(d1, idx, m) * Evaluate(d2, idx, m))
    ELSE acc

RECURSIVE DotProd_loop(_, _, _, _, _)
DotProd_loop(d1, d2, m, idx, acc) ==
    IF idx < DotProd_bound(d1, d2)
    THEN DotProd_loop(d1, d2, m, idx + 1, acc + Evaluate(d1, idx, m) * Evaluate(d2, idx, m))
    ELSE acc

DotProd_run(d1, d2, m) == DotProd_loop(d1, d2, m, 0, 0)

\* operator+(NumberView<T>, NumberView<T>)
NumberView_plus(v1, v2) == Num(v1.num + v2.num)

\* The object the C++ expression e denotes once composed on memory m: views
\* and nodes as written, every Dot call replaced by the NumberView it returned.
RECURSIVE Build(_, _)
Build(e, m) ==
    CASE IsLeaf(e) -> e
      [] e.k = "Neg" -> Neg(Build(e.v, m))
      [] e.k = "Dot" -> Num(DotProd_run(Build(e.v1, m), Build(e.v2, m), m))
      [] e.k = "Sub" -> Sub(Build(e.v1, m), Build(e.v2, m))
      [] e.k = "Add" ->
            IF IsNumberView(e.v1) /\ IsNumberView(e.v2)
            THEN NumberView_plus(Build(e.v1, m), Build(e.v2, m))
            ELSE Add(Build(e.v1, m), Build(e.v2, m))

-----------------------------------------------------------------------------
(* The history a statement leaves: one event per Evaluate call on a leaf and  *)
(* per write.  "by" is the loop that made the call: the path of its Dot node  *)
(* in stmt.e, or ByAssign for the loop of operator=; "leaf" is the path of    *)
(* the leaf in stmt.e (1 = first or only operand, 2 = second operand).        *)

ByAssign == <<0>>

LeafCells(e, idx) == IF IsStored(e) THEN {Storage_at(e.storage, idx)} ELSE {}

EvEvaluate(by, path, e, idx) ==
    [op |-> "Evaluate", by |-> by, leaf |-> path, idx |-> idx, cells |-> LeafCells(e, idx)]
EvWrite(c, idx) ==
    [op |-> "write", by |-> ByAssign, leaf |-> <<>>, idx |-> idx, cells |-> {c}]

\* The leaf calls of e.Evaluate(idx), in call order; e is a composed object.
\* The order of the two operand calls of "+", "-" and "*" is unspecified: rf.
RECURSIVE EvalTrace(_, _, _, _, _)
EvalTrace(e, idx, path, by, rf) ==
    CASE IsLeaf(e) -> <<EvEvaluate(by, path, e, idx)>>
      [] e.k = "Neg" -> EvalTrace(e.v, idx, Append(path, 1), by, rf)
      [] OTHER ->
            LET l == EvalTrace(e.v1, idx, Append(path, 1), by, rf)
                r == EvalTrace(e.v2, idx, Append(path, 2), by, rf)
            IN IF rf THEN r \o l ELSE l \o r

\* The calls of the loop of DotProd::run(d1, d2), the Dot node being at path.
RECURSIVE DotTrace(_, _, _, _, _)
DotTrace(d1, d2, path, rf, idx) ==
    IF idx < DotProd_bound(d1, d2)
    THEN LET l == EvalTrace(d1, idx, Append(path, 1), path, rf)
             r == EvalTrace(d2, idx, Append(path, 2), path, rf)
         IN (IF rf THEN r \o l ELSE l \o r) \o DotTrace(d1, d2, path, rf, idx + 1)
    ELSE <<>>

\* The calls made while e is composed: those of the Dot calls inside it.
RECURSIVE BuildTrace(_, _, _, _)
BuildTrace(e, path, rf, m) ==
    CASE IsLeaf(e) -> <<>>
      [] e.k = "Neg" -> BuildTrace(e.v, Append(path, 1), rf, m)
      [] OTHER ->
            LET l == BuildTrace(e.v1, Append(path, 1), rf, m)
                r == BuildTrace(e.v2, Append(path, 2), rf, m)
                operands == IF rf THEN r \o l ELSE l \o r
            IN IF e.k = "Dot"
               THEN operands \o DotTrace(Build(e.v1, m), Build(e.v2, m), path, rf, 0)
               ELSE operands

-----------------------------------------------------------------------------
(* Statements *)

\* AssignableVectorView has const members, so its implicit copy assignment is
\* deleted, and it is the one overload resolution picks (before the template
\* operator=) when the right-hand side is a bare assignable view of the
\* target's own type.
CopyAssigns(s) ==
    /\ s.kind = "assign"
    /\ s.e.k = "AssignableVectorView"
    /\ s.e.storage.shape = s.t.storage.shape

\* The statement compiles.
StatementCompiles(s) == Compiles(s.e) /\ ~CopyAssigns(s)

Assign(t, e) == [kind |-> "assign", t |-> t, e |-> e]
Scalar(e) == [kind |-> "scalar", e |-> e]
NoStmt == [kind |-> "none"]

\* Faulty variant of the write of operator=: storage[i + 1] for storage[i].
Target_at_next(t, idx) == Storage_at(t.storage, idx + 1)

\* storage[i] of the assignment target
Target_at(t, idx) == Storage_at(t.storage, idx)

\* Caller contract: the storages are long enough for every access the
\* statement makes (no view checks bounds).
InBounds(s, m, rf) ==
    LET built == BuildTrace(s.e, <<>>, rf, m)
        e == Build(s.e, m)
    IN /\ \A n \in DOMAIN built : built[n].cells \subseteq DOMAIN m
       /\ s.kind = "assign" =>
              \A idx \in 0 .. (s.t.dim - 1) :
                 LET walk == EvalTrace(e, idx, <<>>, ByAssign, rf)
                 IN /\ Storage_at(s.t.storage, idx) \in DOMAIN m
                    /\ \A n \in DOMAIN walk : walk[n].cells \subseteq DOMAIN m

ArrayStorages == {ArrayPtr(p) : p \in Ptrs}
StridedStorages == {StridedArrayPtr(0, s) : s \in Strides}
NumLeaves == {Num(c) : c \in Scalars}
VecLeaves == {Vec(st, d) : st \in ArrayStorages \cup StridedStorages, d \in Dims}
NoDimLeaves == {NoDimVec(st) : st \in ArrayStorages}
AVecLeaves == {AVec(st, MaxDim) : st \in ArrayStorages \cup StridedStorages}
Leaves == NumLeaves \cup VecLeaves \cup NoDimLeaves \cup AVecLeaves
Targets == {AVec(st, d) : st \in ArrayStorages \cup StridedStorages, d \in Dims}

Unary(S) == {Neg(a) : a \in S}
Binary(S, T) ==
    {Add(a, b) : a \in S, b \in T} \cup {Sub(a, b) : a \in S, b \in T}
       \cup {Dot(a, b) : a \in S, b \in T}

\* Expressions of the statements of Spec: one operator over any leaves, and
\* Dot(a + b, c), Dot(a, c) + Dot(b, c) over the vectors.
Exprs1 == Leaves \cup Unary(Leaves) \cup Binary(Leaves, Leaves)
DotChains ==
    LET V == VecLeaves \cup NoDimLeaves
    IN {Dot(Add(a, b), c) : a \in V, b \in V, c \in VecLeaves}
          \cup {Add(Dot(a, c), Dot(b, c)) : a \in V, b \in V, c \in VecLeaves}
Exprs == Exprs1 \cup DotChains

Statements ==
    {Assign(t, e) : t \in Targets, e \in Exprs1}
       \cup {Scalar(e) : e \in {x \in Exprs : IsNumberView(x)}}

\* Expressions of the statements of SpecDeep: every tree of depth two over a
\* scalar, an unbounded vector and bounded vectors of every positive dim.
DeepLeaves ==
    NumLeaves \cup {NoDimVec(ArrayPtr(0))} \cup {Vec(ArrayPtr(0), d) : d \in 1 .. MaxDim}
DeepExprs1 == DeepLeaves \cup Unary(DeepLeaves) \cup Binary(DeepLeaves, DeepLeaves)
DeepExprs == DeepExprs1 \cup Unary(DeepExprs1) \cup Binary(DeepExprs1, DeepExprs1)
DeepTarget == AVec(ArrayPtr(MemSize - MaxDim), MaxDim)

DeepStatements ==
    {Assign(DeepTarget, e) : e \in DeepExprs}
       \cup {Scalar(e) : e \in {x \in DeepExprs : IsNumberView(x)}}

-----------------------------------------------------------------------------
(* The state machine *)

\* The caller's arrays before the statement: 1, 2, 3, ... or ..., 6, 4, 2.
InitialMems == {[c \in Cells |-> c + 1], [c \in Cells |-> 2 * (MemSize - c)]}

Init ==
    /\ mem \in InitialMems
    /\ mem0 = mem
    /\ stmt = NoStmt
    /\ expr = Num(0)
    /\ pc = "idle"
    /\ i = 0
    /\ res = 0
    /\ rfirst = FALSE
    /\ log = <<>>

\* The statement does not compile: nothing is built, nothing runs.
Reject(S) ==
    /\ pc = "idle"
    /\ \E s \in S :
          /\ ~StatementCompiles(s)
          /\ stmt' = s
    /\ pc' = "rejected"
    /\ UNCHANGED <<mem, mem0, expr, i, res, rfirst, log>>

\* AVec(..) = e: e is composed (its Dot calls run) and operator= is entered.
ComposeAssign(S) ==
    /\ pc = "idle"
    /\ \E s \in S, rf \in BOOLEAN :
          /\ s.kind = "assign"
          /\ StatementCompiles(s)
          /\ InBounds(s, mem, rf)
          /\ rfirst' = rf
          /\ log' = BuildTrace(s.e, <<>>, rf, mem)
          /\ stmt' = s
          /\ expr' = Build(s.e, mem)
    /\ pc' = "loop"
    /\ i' = 0
    /\ UNCHANGED <<mem, mem0, res>>

\* T p = e: e is composed and converted by NumberView::operator T.
ComposeScalar(S) ==
    /\ pc = "idle"
    /\ \E s \in S, rf \in BOOLEAN :
          /\ s.kind = "scalar"
          /\ StatementCompiles(s)
          /\ InBounds(s, mem, rf)
          /\ rfirst' = rf
          /\ log' = BuildTrace(s.e, <<>>, rf, mem)
          /\ stmt' = s
          /\ expr' = Build(s.e, mem)
          /\ res' = Build(s.e, mem).num
    /\ pc' = "done"
    /\ UNCHANGED <<mem, mem0, i>>

\* Faulty variant of the loop of operator=: the expression's own length is the bound.
Assign_bound_expr(t, e) == IF HasMemberDim(e) THEN Dim(e) ELSE t.dim

\* The bound of the loop of operator=
Assign_bound(t, e) == t.dim

\* Faulty variant of operator=: the loop runs from dim - 1 down to 0.
AssignStep_descending ==
    /\ pc = "loop"
    /\ i < Assign_bound(stmt.t, expr)
    /\ LET idx == stmt.t.dim - 1 - i
       IN /\ mem' = [mem EXCEPT ![Target_at(stmt.t, idx)] = Evaluate(expr, idx, mem)]
          /\ log' = log \o EvalTrace(expr, idx, <<>>, ByAssign, rfirst)
                        \o <<EvWrite(Target_at(stmt.t, idx), idx)>>
    /\ i' = i + 1
    /\ UNCHANGED <<mem0, stmt, expr, pc, res, rfirst>>

\* One iteration of operator=: storage[i] = expr.Evaluate(i)
AssignStep ==
    /\ pc = "loop"
    /\ i < Assign_bound(stmt.t, expr)
    /\ mem' = [mem EXCEPT ![Target_at(stmt.t, i)] = Evaluate(expr, i, mem)]
    /\ log' = log \o EvalTrace(expr, i, <<>>, ByAssign, rfirst)
                  \o <<EvWrite(Target_at(stmt.t, i), i)>>
    /\ i' = i + 1
    /\ UNCHANGED <<mem0, stmt, expr, pc, res, rfirst>>

\* The loop of operator= ends: return *this
AssignReturn ==
    /\ pc = "loop"
    /\ ~(i < Assign_bound(stmt.t, expr))
    /\ pc' = "done"
    /\ UNCHANGED <<mem, mem0, stmt, expr, i, res, rfirst, log>>

Next ==
    \/ Reject(Statements)
    \/ ComposeAssign(Statements)
    \/ ComposeScalar(Statements)
    \/ AssignStep
    \/ AssignReturn

Spec == Init /\ [][Next]_vars

NextDeep ==
    \/ Reject(DeepStatements)
    \/ ComposeAssign(DeepStatements)
    \/ ComposeScalar(DeepStatements)
    \/ AssignStep
    \/ AssignReturn

InitDeep == Init /\ mem = [c \in Cells |-> c + 1]

SpecDeep == InitDeep /\ [][NextDeep]_vars

-----------------------------------------------------------------------------
(* What the statements mean, stated without the code's operators: the        *)
(* claims below compare the state machine with these.                        *)

\* The cell coordinate idx of a storage names.
Cell(st, idx) == st.ptr + idx * (IF st.shape = "StridedArrayPtr" THEN st.stride ELSE 1)

\* The cells of the coordinates 0 .. t.dim-1 of a target.
TargetCells(t) == {Cell(t.storage, idx) : idx \in 0 .. (t.dim - 1)}

\* The scalar-valued subtrees: a number, a dot product, a sum of two scalars.
RECURSIVE IsScalarTree(_)
IsScalarTree(e) ==
    \/ e.k \in {"NumberView", "Dot"}
    \/ e.k = "Add" /\ IsScalarTree(e.v1) /\ IsScalarTree(e.v2)

\* The dims of the bounded vectors of e, depth first, left to right.  A
\* scalar-valued subtree has no length, whatever is inside it.
RECURSIVE BoundedDims(_)
BoundedDims(e) ==
    CASE e.k \in {"VectorView", "AssignableVectorView"} -> <<e.dim>>
      [] e.k = "NoDimVectorView" -> <<>>
      [] IsScalarTree(e) -> <<>>
      [] e.k = "Neg" -> BoundedDims(e.v)
      [] OTHER -> BoundedDims(e.v1) \o BoundedDims(e.v2)

\* The length first-operand-wins resolves for the pair (a, b).
PairDims(a, b) == BoundedDims(a) \o BoundedDims(b)
Resolved(a, b) == Head(PairDims(a, b))

\* The value of coordinate idx of e on memory m; a dot product is the sum of
\* the products of the coordinates below the resolved length.
RECURSIVE Value(_, _, _), Sigma(_, _, _, _)
Sigma(a, b, n, m) ==
    IF n <= 0 THEN 0
    ELSE Sigma(a, b, n - 1, m) + Value(a, n - 1, m) * Value(b, n - 1, m)

Value(e, idx, m) ==
    CASE e.k = "NumberView" -> e.num
      [] e.k \in {"VectorView", "NoDimVectorView", "AssignableVectorView"} ->
            m[Cell(e.storage, idx)]
      [] e.k = "Neg" -> 0 - Value(e.v, idx, m)
      [] e.k = "Add" -> Value(e.v1, idx, m) + Value(e.v2, idx, m)
      [] e.k = "Sub" -> Value(e.v1, idx, m) - Value(e.v2, idx, m)
      [] e.k = "Dot" -> Sigma(e.v1, e.v2, Resolved(e.v1, e.v2), m)

\* The nodes of e with their paths.
RECURSIVE Nodes(_, _)
Nodes(e, path) ==
    {[path |-> path, node |-> e]} \cup
    (CASE IsLeaf(e) -> {}
       [] e.k = "Neg" -> Nodes(e.v, Append(path, 1))
       [] OTHER -> Nodes(e.v1, Append(path, 1)) \cup Nodes(e.v2, Append(path, 2)))

DotNodes(e) == {n \in Nodes(e, <<>>) : n.node.k = "Dot"}
StoredLeaves(e) == {n \in Nodes(e, <<>>) : IsStored(n.node)}

\* The leaves a coordinate walk of e calls: a scalar-valued subtree is one
\* leaf (it is a NumberView by the time the walk runs).
RECURSIVE WalkLeaves(_, _)
WalkLeaves(e, path) ==
    CASE IsLeaf(e) \/ IsScalarTree(e) -> {path}
      [] e.k = "Neg" -> WalkLeaves(e.v, Append(path, 1))
      [] OTHER -> WalkLeaves(e.v1, Append(path, 1)) \cup WalkLeaves(e.v2, Append(path, 2))

\* The loops of a statement, each with the leaves its walks call.
Loops(s) ==
    {[by |-> n.path,
      leaves |-> WalkLeaves(n.node.v1, Append(n.path, 1))
                    \cup WalkLeaves(n.node.v2, Append(n.path, 2))] : n \in DotNodes(s.e)}
       \cup (IF s.kind = "assign"
             THEN {[by |-> ByAssign, leaves |-> WalkLeaves(s.e, <<>>)]}
             ELSE {})

Events(op, by) == SelectSeq(log, LAMBDA ev : ev.op = op /\ ev.by = by)
Writes == Events("write", ByAssign)
AssignLog == SelectSeq(log, LAMBDA ev : ev.by = ByAssign)
WritesBefore(n) == Cardinality({k \in 1 .. (n - 1) : AssignLog[k].op = "write"})

Composed == pc \in {"loop", "done"}
AssignDone == pc = "done" /\ stmt.kind = "assign"
ScalarDone == pc = "done" /\ stmt.kind = "scalar"

\* No Evaluate call of the statement reads a cell of the target.
NoShare ==
    \A n \in DOMAIN log :
       log[n].op = "Evaluate" => log[n].cells \cap TargetCells(stmt.t) = {}

-----------------------------------------------------------------------------
(* Claims *)

\* C1: an assignment into a target of length dim loops over the target's dim,
\* whatever length the expression reports: when no operand shares storage
\* with the target, afterwards t[i] is the value of coordinate i of e for
\* every i in 0..dim-1, and exactly the dim cells of t were written, once each
\* (none when dim <= 0).
Thm_C1 ==
    (AssignDone /\ NoShare) =>
       /\ \A idx \in 0 .. (stmt.t.dim - 1) :
             mem[Cell(stmt.t.storage, idx)] = Value(stmt.e, idx, mem)
       /\ Len(Writes) = Cardinality(0 .. (stmt.t.dim - 1))
       /\ {Writes[n].cells : n \in DOMAIN Writes}
             = {{c} : c \in TargetCells(stmt.t)}
       /\ \A c \in Cells \ TargetCells(stmt.t) : mem[c] = mem0[c]

\* C1 happens: a two-coordinate target took an expression that reports length 1.
Wit_C1 ==
    /\ AssignDone /\ NoShare
    /\ stmt.t.dim = 2
    /\ BoundedDims(stmt.e) # <<>> /\ Head(BoundedDims(stmt.e)) = 1
    /\ Len(Writes) = 2
    /\ mem # mem0

\* C2: the length of a composed expression is the dim of its leftmost
\* length-bearing leaf (depth first, left to right), it has a length exactly
\* when it has such a leaf, and every Dot loops over the length of the
\* leftmost length-bearing leaf of its two operands, first operand first.
Thm_C2 ==
    Composed =>
       /\ HasMemberDim(expr) <=> BoundedDims(stmt.e) # <<>>
       /\ HasMemberDim(expr) => Dim(expr) = Head(BoundedDims(stmt.e))
       /\ \A d \in DotNodes(stmt.e) :
             {log[n].idx : n \in {k \in DOMAIN log : log[k].by = d.path}}
                = 0 .. (Resolved(d.node.v1, d.node.v2) - 1)

\* C2 happens: a Dot whose first operand starts with an unbounded vector and
\* whose bounded leaves disagree ran its loop.
Wit_C2 ==
    /\ ScalarDone
    /\ stmt.e.k = "Dot"
    /\ stmt.e.v1.k \in {"Add", "Sub"}
    /\ stmt.e.v1.v1.k = "NoDimVectorView"
    /\ Len(PairDims(stmt.e.v1, stmt.e.v2)) >= 2
    /\ PairDims(stmt.e.v1, stmt.e.v2)[1] < PairDims(stmt.e.v1, stmt.e.v2)[2]
    /\ log # <<>>

\* The operands of a Dot of e that has no length-bearing operand.
UnboundDots(e) == {d \in DotNodes(e) : PairDims(d.node.v1, d.node.v2) = <<>>}

\* No bounded vector anywhere in e.
NoBoundedLeaf(e) ==
    \A n \in Nodes(e, <<>>) : n.node.k \notin {"VectorView", "AssignableVectorView"}

\* C3 as stated: every combination (Add, Sub, Dot) with no bounded vector in
\* its tree is rejected when it is composed.
Orig_C3 ==
    (pc # "idle" /\ stmt.e.k \in {"Add", "Sub", "Dot"} /\ NoBoundedLeaf(stmt.e))
       => pc = "rejected"

\* C3, as the code has it: a statement is rejected exactly when it holds a Dot neither
\* of whose operands exposes a length, and then nothing was evaluated or
\* written; Add, Sub and Neg of operands with no length compose, and an
\* assignment of such an expression loops over the target's dim.
Thm_C3 ==
    pc # "idle" =>
       /\ UnboundDots(stmt.e) # {} => pc = "rejected"
       /\ pc = "rejected" => UnboundDots(stmt.e) # {} \/ CopyAssigns(stmt)
       /\ pc = "rejected" => log = <<>> /\ mem = mem0
       /\ (AssignDone /\ NoBoundedLeaf(stmt.e)) =>
             {Writes[n].idx : n \in DOMAIN Writes} = 0 .. (stmt.t.dim - 1)

\* C3 happens: Dot(a + b, c) over unbounded vectors only was rejected.
Wit_C3 ==
    /\ pc = "rejected"
    /\ stmt.e.k = "Dot"
    /\ stmt.e.v1.k = "Add"
    /\ NoBoundedLeaf(stmt.e)

\* C4: Dot(a, b) is the eager sum of a[i] * b[i] over the resolved length (0
\* when that length is <= 0), held by a NumberView: as a bare scalar, as the
\* operand of a sum of scalars, and as the right-hand side of an assignment.
Thm_C4 ==
    /\ ScalarDone => res = Value(stmt.e, 0, mem0) /\ expr = Num(res)
    /\ (Composed /\ stmt.kind = "assign" /\ stmt.e.k = "Dot") =>
          expr = Num(Sigma(stmt.e.v1, stmt.e.v2, Resolved(stmt.e.v1, stmt.e.v2), mem0))

\* C4 happens: a Dot over two coordinates, its length taken from the second
\* operand, gave a scalar.
Wit_C4 ==
    /\ ScalarDone
    /\ stmt.e.k = "Dot"
    /\ stmt.e.v1.k = "NoDimVectorView"
    /\ Resolved(stmt.e.v1, stmt.e.v2) = 2
    /\ res > 0

\* The leaves the walks of the assignment read from storage.
WalkedStored(s) == {n \in StoredLeaves(s.e) : n.path \in WalkLeaves(s.e, <<>>)}

\* The target is an operand of its own right-hand side, through a view with
\* the target's storage (same base, same stride), and no other operand of the
\* walks reads a cell of the target.
SelfReferential ==
    /\ Composed /\ stmt.kind = "assign"
    /\ \E l \in WalkedStored(stmt) : l.node.storage = stmt.t.storage
    /\ \A l \in WalkedStored(stmt) :
          \/ l.node.storage = stmt.t.storage
          \/ {Cell(l.node.storage, idx) : idx \in 0 .. (stmt.t.dim - 1)}
                \cap TargetCells(stmt.t) = {}

\* C5: in a self-referential assignment every coordinate written so far holds
\* the value of e on the contents before the assignment, no read of the loop
\* touches a cell the loop has already written, and the reads of coordinate i
\* come before the write of coordinate i.
Thm_C5 ==
    SelfReferential =>
       /\ \A idx \in 0 .. (Len(Writes) - 1) :
             mem[Cell(stmt.t.storage, idx)] = Value(stmt.e, idx, mem0)
       /\ pc = "done" => Len(Writes) = Cardinality(0 .. (stmt.t.dim - 1))
       /\ \A n \in DOMAIN AssignLog : \A k \in 1 .. (n - 1) :
             (AssignLog[n].op = "Evaluate" /\ AssignLog[k].op = "write") =>
                /\ AssignLog[k].cells \cap AssignLog[n].cells = {}
                /\ AssignLog[k].idx < AssignLog[n].idx

\* C5 happens: t := -t over two coordinates.
Wit_C5 ==
    /\ SelfReferential /\ pc = "done"
    /\ stmt.e.k = "Neg"
    /\ stmt.t.dim = 2
    /\ mem # mem0

\* C6: only the loop of an assignment changes memory, and only the cells
\* i * stride (i in 0..dim-1) of its target: composing, rejecting, Dot and
\* scalar statements leave every cell as it was.
Thm_C6 ==
    /\ DOMAIN mem = Cells
    /\ pc \in {"idle", "rejected"} => mem = mem0
    /\ (Composed /\ stmt.kind = "scalar") => mem = mem0
    /\ (pc = "loop" /\ i = 0) => mem = mem0
    /\ (Composed /\ stmt.kind = "assign") =>
          \A c \in Cells \ TargetCells(stmt.t) : mem[c] = mem0[c]

\* C6 happens: a strided target of two coordinates was assigned.
Wit_C6 ==
    /\ AssignDone
    /\ stmt.t.storage.shape = "StridedArrayPtr"
    /\ stmt.t.dim = 2
    /\ \A c \in TargetCells(stmt.t) : mem[c] # mem0[c]

WideIdx == ((0 - MemSize) .. MemSize) \cup {0 - 2147483647, 2147483647}

\* What the walk of coordinate idx of a finished assignment read in cell c:
\* the new value when an earlier coordinate of the target is that cell, the
\* old one otherwise.
AtRead(c, idx) ==
    IF c \in {Cell(stmt.t.storage, j) : j \in 0 .. (idx - 1)} THEN mem[c] ELSE mem0[c]

\* C7: a NumberView evaluates to its scalar at every index and has no length;
\* assigning Num(c) sets every coordinate of the target to c, and assigning
\* Num(c) + v sets coordinate i to c + v[i], v[i] being read in the walk of
\* coordinate i.
Thm_C7 ==
    /\ \A c \in Scalars, idx \in WideIdx :
          Evaluate(Num(c), idx, mem) = c /\ ~HasMemberDim(Num(c))
    /\ (AssignDone /\ stmt.e.k = "NumberView") =>
          /\ \A idx \in 0 .. (stmt.t.dim - 1) : mem[Cell(stmt.t.storage, idx)] = stmt.e.num
          /\ Len(Writes) = Cardinality(0 .. (stmt.t.dim - 1))
    /\ (AssignDone /\ stmt.e.k = "Add" /\ stmt.e.v1.k = "NumberView" /\ IsStored(stmt.e.v2)) =>
          \A idx \in 0 .. (stmt.t.dim - 1) :
             mem[Cell(stmt.t.storage, idx)]
                = stmt.e.v1.num + AtRead(Cell(stmt.e.v2.storage, idx), idx)

\* C7 happens: Num(c) + v went into a target of two coordinates.
Wit_C7 ==
    /\ AssignDone
    /\ stmt.e.k = "Add" /\ stmt.e.v1.k = "NumberView" /\ IsStored(stmt.e.v2)
    /\ NoShare
    /\ stmt.t.dim = 2
    /\ mem # mem0

\* a is unbounded or bounded by n
Fits(a, n) ==
    \/ a.k = "NoDimVectorView"
    \/ a.k \in {"VectorView", "AssignableVectorView"} /\ a.dim = n

\* e is Dot(a + b, c) with c bounded by n and a, b unbounded or bounded by n
IsDotOfSum(e) ==
    /\ e.k = "Dot" /\ e.v1.k = "Add" /\ e.v2.k = "VectorView"
    /\ Fits(e.v1.v1, e.v2.dim) /\ Fits(e.v1.v2, e.v2.dim)

\* e is Dot(a, c) + Dot(b, c) with c bounded by n and a, b unbounded or bounded by n
IsSumOfDots(e) ==
    /\ e.k = "Add" /\ e.v1.k = "Dot" /\ e.v2.k = "Dot"
    /\ e.v1.v2 = e.v2.v2 /\ e.v1.v2.k = "VectorView"
    /\ Fits(e.v1.v1, e.v1.v2.dim) /\ Fits(e.v2.v1, e.v1.v2.dim)

SumOfDots(e) == Add(Dot(e.v1.v1, e.v2), Dot(e.v1.v2, e.v2))
DotOfSum(e) == Dot(Add(e.v1.v1, e.v2.v1), e.v1.v2)

\* C8: Dot(a + b, c) = Dot(a, c) + Dot(b, c): whichever of the two a scalar
\* statement computed, composing the other one on that memory gives the same
\* scalar.
Thm_C8 ==
    ScalarDone =>
       /\ IsDotOfSum(stmt.e) => res = Build(SumOfDots(stmt.e), mem).num
       /\ IsSumOfDots(stmt.e) => res = Build(DotOfSum(stmt.e), mem).num

\* C8 happens: Dot(a + b, c) ran over two coordinates of three different views.
Wit_C8 ==
    /\ ScalarDone
    /\ IsDotOfSum(stmt.e)
    /\ stmt.e.v2.dim = 2
    /\ stmt.e.v1.v1.storage # stmt.e.v1.v2.storage
    /\ stmt.e.v1.v1.storage # stmt.e.v2.storage
    /\ res > 0

\* C9: the loop of an assignment handles one coordinate at a time: every
\* event of the loop belongs to the coordinate after the last one written (so
\* the writes go 0, 1, 2, ..., each once, and the reads of coordinate i lie
\* between the writes of i-1 and i), a coordinate's walk calls every leaf of
\* the expression once, and the loop ends after dim writes.
Thm_C9 ==
    (Composed /\ stmt.kind = "assign") =>
       /\ \A n \in DOMAIN AssignLog : AssignLog[n].idx = WritesBefore(n)
       /\ Len(Writes) = IF pc = "done" THEN Cardinality(0 .. (stmt.t.dim - 1)) ELSE i
       /\ \A n \in DOMAIN Writes : Writes[n].cells = {Cell(stmt.t.storage, n - 1)}
       /\ \A j \in 0 .. (Len(Writes) - 1) : \A lf \in WalkLeaves(stmt.e, <<>>) :
             Cardinality({n \in DOMAIN AssignLog :
                            /\ AssignLog[n].op = "Evaluate"
                            /\ AssignLog[n].idx = j
                            /\ AssignLog[n].leaf = lf}) = 1
       /\ Len(AssignLog) = Len(Writes) * (1 + Cardinality(WalkLeaves(stmt.e, <<>>)))

\* C9 happens: a two-operand expression went into two coordinates.
Wit_C9 ==
    /\ AssignDone
    /\ stmt.e.k \in {"Add", "Sub"}
    /\ stmt.t.dim = 2
    /\ Len(AssignLog) = 6

\* Every bounded view of the statement, the target included, has dim n.
SameDim(n) ==
    /\ stmt.kind = "assign" => stmt.t.dim = n
    /\ \A x \in Nodes(stmt.e, <<>>) :
          x.node.k \in {"VectorView", "AssignableVectorView"} => x.node.dim = n

EvaluateCalls(by, lf, j) ==
    {n \in DOMAIN log :
       log[n].op = "Evaluate" /\ log[n].by = by /\ log[n].leaf = lf /\ log[n].idx = j}

\* C10: when every bounded view of the statement has the same dim n >= 0,
\* every index given to Evaluate or written lies in 0..n-1, and when the
\* statement is done every loop (the assignment, each Dot) has called each of
\* its leaves once at each of those indices and the assignment has written
\* each of them once.
Thm_C10 ==
    Composed =>
       \A n \in 0 .. MaxDim :
          SameDim(n) =>
             /\ \A k \in DOMAIN log : log[k].idx \in 0 .. (n - 1)
             /\ pc = "done" =>
                   /\ \A L \in Loops(stmt) : \A lf \in L.leaves : \A j \in 0 .. (n - 1) :
                         Cardinality(EvaluateCalls(L.by, lf, j)) = 1
                   /\ stmt.kind = "assign" =>
                         \A j \in 0 .. (n - 1) :
                            Cardinality({k \in DOMAIN Writes : Writes[k].idx = j}) = 1

\* C10 happens: an assignment of a Dot, all of dim 2, is done.
Wit_C10 ==
    /\ AssignDone
    /\ SameDim(2)
    /\ stmt.e.k = "Dot"
    /\ stmt.e.v1.k = "VectorView"
    /\ Len(log) = 8

====
